---- MODULE Spec2Model ----
(***************************************************************************)
(* Model of the hypergraph rewriting system                                *)
(* (src/modules/HypergraphRewritingSystem.mjs).                            *)
(*                                                                         *)
(* The class HypergraphRewritingSystem owns a spatial hypergraph and a     *)
(* causal graph, finds the matches of the rules' left-hand sides, orders   *)
(* them and applies them in timed slices driven by setTimeout.             *)
(*                                                                         *)
(* Conventions: JavaScript arrays are 0-based, TLA+ sequences 1-based, so  *)
(* the pattern variable v lives at position v + 1 of an assignment (map).  *)
(* Rule indices (field r of a hit) keep the 0-based value of the code.     *)
(* The two stores (SpatialGraph, CausalGraph) are modelled by their         *)
(* documented contracts: find, count, rewriteSpatial, clearSpatial,        *)
(* rewriteCausal, clearCausal and Rank.  The callbacks progressfn and      *)
(* finishedfn are taken not to call back into the object, and the elapsed  *)
(* time (duration, the 500 msec of a slice) is a nondeterministic choice.  *)
(***************************************************************************)
EXTENDS Integers, Sequences, FiniteSets, TLC

\* ------------------------------------------------------------------ bounds

\* Largest event budget handed to run().
MaxEvents == 2

\* Number of times run() is called in one behaviour.
MaxRuns == 2

\* ----------------------------------------------------------------- helpers

Min(S) == CHOOSE x \in S : \A y \in S : x <= y

Max(S) == CHOOSE x \in S : \A y \in S : x >= y

RECURSIVE flat(_)
\* Array.prototype.flat on an array of hyperedges.
flat(edges) == IF edges = <<>> THEN <<>> ELSE Head(edges) \o flat(Tail(edges))

Range(s) == {s[i] : i \in DOMAIN s}

\* Number of entries of the sequence s equal to x.
Occurrences(s, x) == Cardinality({i \in DOMAIN s : s[i] = x})

RECURSIVE Digits(_)
\* Decimal digits of a natural number as UTF-16 code units ("0" is 48).
Digits(n) == IF n < 10 THEN <<48 + n>> ELSE Digits(n \div 10) \o <<48 + (n % 10)>>

\* Number.prototype.toString: the minus sign is code unit 45.
NumToString(n) == IF n < 0 THEN <<45>> \o Digits(0 - n) ELSE Digits(n)

RECURSIVE StrLess(_, _)
\* Code-unit order of two strings, the order Array.prototype.sort uses
\* when it is called without a comparator.
StrLess(a, b) ==
    IF a = <<>> THEN b # <<>>
    ELSE IF b = <<>> THEN FALSE
    ELSE IF Head(a) # Head(b) THEN Head(a) < Head(b)
    ELSE StrLess(Tail(a), Tail(b))

RECURSIVE SortDefault(_)
\* [ ...new Set( x ) ].sort(): the distinct numbers of S in the order of
\* their decimal strings.
SortDefault(S) ==
    IF S = {} THEN <<>>
    ELSE LET first == CHOOSE x \in S :
                         \A y \in S \ {x} : StrLess(NumToString(x), NumToString(y))
         IN <<first>> \o SortDefault(S \ {first})

\* ----------------------------------------------- spatial hypergraph store

\* SpatialGraph.clear: no edges, no vertex allocated.
clearSpatial == [E |-> <<>>, maxv |-> -1]

\* SpatialGraph.find: the live edges matching a partially bound template;
\* a position holding -1 is free.
find(graph, template) ==
    SelectSeq(graph.E, LAMBDA e :
        Len(e) = Len(template)
        /\ \A n \in DOMAIN template : template[n] = -1 \/ template[n] = e[n])

\* SpatialGraph.count: how many times the concrete edge set is present,
\* an edge needed c times and present k times allowing k \div c copies.
count(graph, edges) ==
    IF edges = <<>> THEN 0
    ELSE Min({Occurrences(graph.E, e) \div Occurrences(edges, e) : e \in Range(edges)})

RECURSIVE removeEdges(_, _)
\* Removes one live instance of each edge of del; an absent edge is skipped.
removeEdges(E, del) ==
    IF del = <<>> THEN E
    ELSE LET e == Head(del)
             at == {i \in DOMAIN E : E[i] = e}
         IN IF at = {} THEN removeEdges(E, Tail(del))
            ELSE LET i == Min(at)
                 IN removeEdges(SubSeq(E, 1, i - 1) \o SubSeq(E, i + 1, Len(E)), Tail(del))

\* SpatialGraph.rewrite: removes del, then adds add, raising maxv to the
\* largest vertex id referenced.
rewriteSpatial(graph, del, add) ==
    [E |-> removeEdges(graph.E, del) \o add,
     maxv |-> Max({graph.maxv} \cup Range(flat(add)))]

\* ---------------------------------------------------- causal graph store

\* CausalGraph.clear
clearCausal == <<>>

\* CausalGraph.rewrite: appends one event.
rewriteCausal(events, match, modified, props) ==
    Append(events, [consumed |-> match, produced |-> modified, step |-> props.step])

\* CausalGraph.L.get( v )[0]: the latest event that produced the vertex.
Rank(events, v) == Max({i \in DOMAIN events : v \in Range(events[i].produced)}) - 1

\* ------------------------------------------------------------ the inputs

\* (x,x,y)(y,z,u) -> (x,v,u)(y,v,z)(v,v,u), the rule of the README.
RuleReadme ==
    [lhs |-> << <<0, 0, 1>>, <<1, 2, 3>> >>,
     rhs |-> << <<0, 4, 3>>, <<1, 4, 2>>, <<4, 4, 3>> >>]

\* (x,z) -> (y,w): the new variable y is numbered below z, w above it.
RuleGap == [lhs |-> << <<0, 2>> >>, rhs |-> << <<1, 3>> >>]

\* (x,y) -> nothing.
RuleDelete == [lhs |-> << <<0, 1>> >>, rhs |-> <<>>]

\* (x,x,y) -> (y)
RuleLoop == [lhs |-> << <<0, 0, 1>> >>, rhs |-> << <<1>> >>]

\* (x,y) -> (x,y)
RuleSame == [lhs |-> << <<0, 1>> >>, rhs |-> << <<0, 1>> >>]

\* (x,y) -> (x,z)(z,y)
RuleSplit == [lhs |-> << <<0, 1>> >>, rhs |-> << <<0, 2>>, <<2, 1>> >>]

\* (x,y) -> (y,x)
RuleFlip == [lhs |-> << <<0, 1>> >>, rhs |-> << <<1, 0>> >>]

\* (x,y) -> (x,y)(y,z,z): the matched edge stays, its vertex x is not
\* produced anew.
RuleTail == [lhs |-> << <<0, 1>> >>, rhs |-> << <<0, 1>>, <<1, 2, 2>> >>]

\* (x,y) -> (x,y)(y,z): the matched edge stays and a new edge hangs on y.
RuleGrow == [lhs |-> << <<0, 1>> >>, rhs |-> << <<0, 1>>, <<1, 2>> >>]

\* (x,y,y) -> nothing.
RuleDrop == [lhs |-> << <<0, 1, 1>> >>, rhs |-> <<>>]

\* (1,1,2)(2,2,3)(3,3,4), the initial state of the README.
InitReadme == << <<1, 1, 2>>, <<2, 2, 3>>, <<3, 3, 4>> >>

InitDouble == << <<1, 2>>, <<1, 2>> >>

InitLoop == << <<1, 2, 3>>, <<1, 1, 3>> >>

InitEdge == << <<1, 2>> >>

InitPath == << <<1, 2>>, <<2, 3>> >>

\* One edge over a one-digit and a two-digit vertex id.
InitWide == << <<9, 10>> >>

\* Edges of different lengths over the same vertices.
InitMixed == << <<1, 2>>, <<1, 2, 3>> >>

RunInput(rs, init, ro, eo) ==
    [rules |-> rs, initial |-> init, ruleOrdering |-> ro, eventOrdering |-> eo]

\* The arguments run() is called with (the event budget apart).  An event
\* ordering other than "random" reads the rank of every slot of a hit's map,
\* so it is run with rules whose left-hand side binds every slot.
RunInputs ==
    { RunInput(<<>>, InitEdge, "mixed", "random"),
      RunInput(<<RuleReadme>>, InitReadme, "mixed", "random"),
      RunInput(<<RuleReadme>>, InitReadme, "index", "ascending"),
      RunInput(<<RuleGap>>, InitEdge, "mixed", "random"),
      RunInput(<<RuleDelete>>, InitDouble, "mixed", "random"),
      RunInput(<<RuleDelete>>, InitMixed, "mixed", "random"),
      RunInput(<<RuleLoop>>, InitLoop, "mixed", "random"),
      RunInput(<<RuleSame>>, InitEdge, "indexrev", "random"),
      RunInput(<<RuleSplit>>, InitEdge, "mixed", "ascending"),
      RunInput(<<RuleSplit>>, InitPath, "mixed", "descending"),
      RunInput(<<RuleGrow>>, InitEdge, "mixed", "ascending"),
      RunInput(<<RuleFlip>>, InitWide, "mixed", "random"),
      RunInput(<<RuleFlip, RuleDelete>>, InitPath, "index", "random"),
      RunInput(<<RuleFlip, RuleDelete>>, InitPath, "indexrev", "ascending"),
      RunInput(<<RuleFlip, RuleDelete>>, InitPath, "mixed", "descending"),
      RunInput(<<RuleTail, RuleDrop>>, InitEdge, "index", "ascending"),
      RunInput(<<RuleTail, RuleDrop>>, InitEdge, "indexrev", "descending") }

\* ------------------------------------------------- HypergraphRewritingSystem

\* mapper( graph, patterns, map ): a variable below map.length takes its
\* slot of the map, any other a vertex above graph.maxv.
mapper(graph, patterns, map) ==
    [p \in DOMAIN patterns |->
        [n \in DOMAIN patterns[p] |->
            LET v == patterns[p][n]
            IN IF v < Len(map) THEN map[v + 1]
               ELSE graph.maxv + (v - Len(map)) + 1]]

\* for( n = pattern.length - 1; n >= 0; n-- ) map[ pattern[n] ] = edge[n]:
\* the write with the smallest n is the last one and stays.
Bind(map, pattern, edge) ==
    [v \in DOMAIN map |->
        IF \E n \in DOMAIN pattern : pattern[n] = v - 1
        THEN edge[Min({n \in DOMAIN pattern : pattern[n] = v - 1})]
        ELSE map[v]]

\* map0 of findMatches: every slot -1, then the first pattern bound to the edge.
SeedMap(rule, edge) ==
    LET maxnum == Max(Range(flat(rule.lhs)))
    IN Bind([v \in 1..(maxnum + 1) |-> -1], rule.lhs[1], edge)

RECURSIVE ExtendMaps(_, _, _, _)
\* The loop over the mapping hypotheses maps[k], k downwards: each live edge
\* matching the pattern under maps[k] gives one extended map.
ExtendMaps(graph, pattern, maps, k) ==
    IF k = 0 THEN <<>>
    ELSE LET edges == find(graph, mapper(graph, <<pattern>>, maps[k])[1])
             new == [l \in 1..Len(edges) |->
                        Bind(maps[k], pattern, edges[Len(edges) + 1 - l])]
         IN new \o ExtendMaps(graph, pattern, maps, k - 1)

RECURSIVE JoinLhs(_, _, _, _)
\* The loop over the patterns lhs[j], j = 1 .. len - 1 (here 2 .. Len).
JoinLhs(graph, lhs, maps, j) ==
    IF j > Len(lhs) THEN maps
    ELSE JoinLhs(graph, lhs, ExtendMaps(graph, lhs[j], maps, Len(maps)), j + 1)

RECURSIVE ReplicateOnce(_, _, _, _, _)
\* Each final map pushed once, whatever graph.count says.
ReplicateOnce(graph, rules, i, maps, k) ==
    IF k = 0 THEN <<>>
    ELSE <<[r |-> i, m |-> maps[k]]>> \o ReplicateOnce(graph, rules, i, maps, k - 1)

RECURSIVE Replicate(_, _, _, _, _)
\* Each final map, k downwards, is pushed count( lhs under the map ) times.
Replicate(graph, rules, i, maps, k) ==
    IF k = 0 THEN <<>>
    ELSE [c \in 1..count(graph, mapper(graph, rules[i + 1].lhs, maps[k])) |->
             [r |-> i, m |-> maps[k]]]
         \o Replicate(graph, rules, i, maps, k - 1)

\* The body of the loop over the rules without the test of the lengths:
\* map0 takes edge[n] for the positions n the edge has.
SeedHitsAnyArity(graph, rules, edge, i) ==
    LET rule == rules[i + 1]
        maxnum == Max(Range(flat(rule.lhs)))
        at(v) == {n \in DOMAIN edge \cap DOMAIN rule.lhs[1] : rule.lhs[1][n] = v - 1}
        map0 == [v \in 1..(maxnum + 1) |->
                    IF at(v) # {} THEN edge[Min(at(v))] ELSE -1]
        maps == JoinLhs(graph, rule.lhs, <<map0>>, 2)
    IN Replicate(graph, rules, i, maps, Len(maps))

\* The body of the loop over the rules: the hits of rule i (0-based) that
\* one edge seeds, none if ( edge.length !== rule.lhs[0].length ).
SeedHits(graph, rules, edge, i) ==
    LET rule == rules[i + 1]
        maps == JoinLhs(graph, rule.lhs, <<SeedMap(rule, edge)>>, 2)
    IN IF Len(edge) # Len(rule.lhs[1]) THEN <<>>
       ELSE Replicate(graph, rules, i, maps, Len(maps))

RECURSIVE EdgeRuleMatches(_, _, _, _)
\* The hits one edge seeds, rule i (0-based) onwards.
EdgeRuleMatches(graph, rules, edge, i) ==
    IF i >= Len(rules) THEN <<>>
    ELSE SeedHits(graph, rules, edge, i) \o EdgeRuleMatches(graph, rules, edge, i + 1)

RECURSIVE EdgeMatches(_, _, _)
\* The loop over graph.E.values(), from the e-th live edge on.
EdgeMatches(graph, rules, e) ==
    IF e > Len(graph.E) THEN <<>>
    ELSE EdgeRuleMatches(graph, rules, graph.E[e], 0) \o EdgeMatches(graph, rules, e + 1)

\* findMatches( graph ): the new content of this.matches.
findMatches(graph, rules) ==
    IF Len(rules) = 0 THEN <<>> ELSE EdgeMatches(graph, rules, 1)

\* The rule taken as it is, the overlapping patterns not removed.
rulesNolUnfiltered(rule) == [lhs |-> rule.lhs, rhs |-> rule.rhs]

\* rulesNol of processMatches: the patterns of one side that do not occur
\* on the other side (join(",") is injective on arrays of integers).
rulesNol(rule) ==
    [lhs |-> SelectSeq(rule.lhs, LAMBDA p : p \notin Range(rule.rhs)),
     rhs |-> SelectSeq(rule.rhs, LAMBDA p : p \notin Range(rule.lhs))]

RECURSIVE InsertDesc(_, _)
InsertDesc(sorted, x) ==
    IF sorted = <<>> THEN <<x>>
    ELSE IF Head(sorted) < x THEN <<x>> \o sorted
    ELSE <<Head(sorted)>> \o InsertDesc(Tail(sorted), x)

RECURSIVE SortDesc(_)
\* Array.prototype.sort( (a,b) => b - a ) on numbers.
SortDesc(s) == IF s = <<>> THEN <<>> ELSE InsertDesc(SortDesc(Tail(s)), Head(s))

\* match.order of rewrite: the ranks of the bound vertices, largest first.
orderOf(events, match) ==
    SortDesc([v \in DOMAIN match.m |-> Rank(events, match.m[v])])

RECURSIVE FirstDiff(_, _, _)
\* The loop over i < minlen of the two comparators: the first position at
\* which the two order arrays differ, 0 when there is none.
FirstDiff(a, b, i) ==
    IF i > Len(a) \/ i > Len(b) THEN 0
    ELSE IF a[i] # b[i] THEN i
    ELSE FirstDiff(a, b, i + 1)

\* The comparators handed to this.matches.sort in rewrite.
Compare(kind, a, b) ==
    CASE kind = "ascending" ->
            LET d == FirstDiff(a.order, b.order, 1)
            IN IF d # 0 THEN b.order[d] - a.order[d]
               ELSE Len(b.order) - Len(a.order)
      [] kind = "descending" ->
            LET d == FirstDiff(a.order, b.order, 1)
            IN IF d # 0 THEN a.order[d] - b.order[d]
               ELSE Len(a.order) - Len(b.order)
      [] kind = "index" -> a.r - b.r
      [] kind = "indexrev" -> b.r - a.r

RECURSIVE InsertStable(_, _, _)
InsertStable(sorted, x, kind) ==
    IF sorted = <<>> THEN <<x>>
    ELSE IF Compare(kind, Head(sorted), x) > 0 THEN <<x>> \o sorted
    ELSE <<Head(sorted)>> \o InsertStable(Tail(sorted), x, kind)

RECURSIVE SortStable(_, _)
\* Array.prototype.sort with a comparator: a stable sort.
SortStable(s, kind) ==
    IF s = <<>> THEN <<>>
    ELSE InsertStable(SortStable(SubSeq(s, 1, Len(s) - 1), kind), s[Len(s)], kind)

\* The event ordering of rewrite applied to the shuffled hits.
ApplyEventOrdering(events, eo, hits) ==
    IF eo = "random" THEN hits
    ELSE LET keyed == [k \in DOMAIN hits |->
                          [r |-> hits[k].r, m |-> hits[k].m,
                           order |-> orderOf(events, hits[k])]]
         IN IF eo \in {"ascending", "descending"} THEN SortStable(keyed, eo)
            ELSE keyed

\* The rule ordering left out: the hits stay in the order they come in.
ApplyRuleOrderingSkipped(rs, ro, hits) == hits

\* The rule ordering of rewrite.
ApplyRuleOrdering(rs, ro, hits) ==
    IF Len(rs) > 1 /\ ro \in {"index", "indexrev"} THEN SortStable(hits, ro)
    ELSE hits

\* ------------------------------------------------------------------ state

VARIABLES
    spatial,        \* this.spatial: [E, maxv]
    causal,         \* this.causal: the recorded events
    rules,          \* this.rules
    initial,        \* this.initial
    step,           \* this.step
    eventcnt,       \* this.eventcnt
    maxevents,      \* this.maxevents
    matches,        \* this.matches
    eventordering,  \* this.eventordering
    ruleordering,   \* this.ruleordering
    pc,             \* position of the running rewrite slice, "idle" when none runs
    idx,            \* loop variable i of processMatches (1-based), 0 outside the loop
    timers,         \* number of pending setTimeout( this.rewrite ) callbacks
    finished,       \* number of calls of this.finishedfn since it was set
    runs,           \* number of calls of run()
    cancelled,      \* whether cancel() was called since the last run()
    progresscalls,  \* calls of this.progressfn made by the executing slice
    progresslast    \* count of the last call of this.progressfn since it was
                    \* set, -1 when there was none

vars == <<spatial, causal, rules, initial, step, eventcnt, maxevents, matches,
          eventordering, ruleordering, pc, idx, timers, finished, runs, cancelled,
          progresscalls, progresslast>>

\* The state after the constructor.
Init ==
    /\ spatial = clearSpatial
    /\ causal = clearCausal
    /\ rules = <<>>
    /\ initial = <<>>
    /\ step = 0
    /\ eventcnt = 0
    /\ maxevents = 0
    /\ matches = <<>>
    /\ eventordering = ""
    /\ ruleordering = ""
    /\ pc = "idle"
    /\ idx = 0
    /\ timers = 0
    /\ finished = 0
    /\ runs = 0
    /\ cancelled = FALSE
    /\ progresscalls = 0
    /\ progresslast = -1

\* -------------------------------------------------------------- operations

\* run() that seeds the stores without clearing them first.
RunWithoutClear(rs, init, ro, eo, n) ==
    /\ pc = "idle"
    /\ runs < MaxRuns
    /\ spatial' = rewriteSpatial(spatial, <<>>, init)
    /\ causal' = rewriteCausal(causal, <<>>, SortDefault(Range(flat(init))),
                               [step |-> 0])
    /\ matches' = <<>>
    /\ eventcnt' = 0
    /\ step' = 0
    /\ rules' = rs
    /\ initial' = init
    /\ ruleordering' = ro
    /\ eventordering' = eo
    /\ maxevents' = n
    /\ finished' = 0
    /\ timers' = timers + 1
    /\ runs' = runs + 1
    /\ cancelled' = FALSE
    /\ progresslast' = -1
    /\ UNCHANGED <<pc, idx, progresscalls>>

\* run( rules, initial, ruleOrdering, eventOrdering, maxevents, progressfn,
\* finishedfn ), called while no slice is executing.
Run(rs, init, ro, eo, n) ==
    /\ pc = "idle"
    /\ runs < MaxRuns
    /\ spatial' = rewriteSpatial(clearSpatial, <<>>, init)
    /\ causal' = rewriteCausal(clearCausal, <<>>, SortDefault(Range(flat(init))),
                               [step |-> 0])
    /\ matches' = <<>>
    /\ eventcnt' = 0
    /\ step' = 0
    /\ rules' = rs
    /\ initial' = init
    /\ ruleordering' = ro
    /\ eventordering' = eo
    /\ maxevents' = n
    /\ finished' = 0
    /\ timers' = timers + 1
    /\ runs' = runs + 1
    /\ cancelled' = FALSE
    /\ progresslast' = -1
    /\ UNCHANGED <<pc, idx, progresscalls>>

\* cancel() that leaves the event budget as it is.
CancelKeepsBudget ==
    /\ pc = "idle"
    /\ cancelled' = TRUE
    /\ UNCHANGED <<spatial, causal, rules, initial, step, eventcnt, maxevents,
                   matches, eventordering, ruleordering, pc, idx, timers,
                   finished, runs,
                   progresscalls, progresslast>>

\* cancel(), called while no slice is executing.
Cancel ==
    /\ pc = "idle"
    /\ maxevents' = 0
    /\ cancelled' = TRUE
    /\ UNCHANGED <<spatial, causal, rules, initial, step, eventcnt, matches,
                   eventordering, ruleordering, pc, idx, timers, finished, runs,
                   progresscalls, progresslast>>

\* A pending timer fires and rewrite starts a slice.
SliceStart ==
    /\ pc = "idle"
    /\ timers > 0
    /\ timers' = timers - 1
    /\ pc' = "step"
    /\ UNCHANGED <<spatial, causal, rules, initial, step, eventcnt, maxevents,
                   matches, eventordering, ruleordering, idx, finished, runs,
                   cancelled,
                   progresscalls, progresslast>>

\* A round started without counting the step.
NewStepSkipped ==
    /\ pc = "step"
    /\ pc' = "find"
    /\ UNCHANGED <<spatial, causal, rules, initial, step, eventcnt, maxevents,
                   matches, eventordering, ruleordering, idx, timers, finished,
                   runs, cancelled, progresscalls, progresslast>>

\* this.step++ at the head of a round.
NewStep ==
    /\ pc = "step"
    /\ step' = step + 1
    /\ pc' = "find"
    /\ UNCHANGED <<spatial, causal, rules, initial, eventcnt, maxevents, matches,
                   eventordering, ruleordering, idx, timers, finished, runs,
                   cancelled, progresscalls, progresslast>>

\* this.findMatches( this.spatial ) appending to the hits of the last round.
FindRoundKeepsHits ==
    /\ pc = "find"
    /\ matches' = matches \o findMatches(spatial, rules)
    /\ pc' = IF Len(matches') = 0 THEN "progress" ELSE "order"
    /\ UNCHANGED <<spatial, causal, rules, initial, step, eventcnt, maxevents,
                   eventordering, ruleordering, idx, timers, finished, runs,
                   cancelled, progresscalls, progresslast>>

\* this.findMatches( this.spatial ); break when there is no hit.
FindRound ==
    /\ pc = "find"
    /\ matches' = findMatches(spatial, rules)
    /\ pc' = IF Len(matches') = 0 THEN "progress" ELSE "order"
    /\ UNCHANGED <<spatial, causal, rules, initial, step, eventcnt, maxevents,
                   eventordering, ruleordering, idx, timers, finished, runs,
                   cancelled,
                   progresscalls, progresslast>>

\* The Fisher-Yates shuffle: any permutation of the hits.
Shuffles(hits) ==
    {[k \in DOMAIN hits |-> hits[perm[k]]] : perm \in Permutations(DOMAIN hits)}

\* The shuffle, the event ordering and the rule ordering of one round.
OrderRound ==
    /\ pc = "order"
    /\ \E sh \in Shuffles(matches) :
          matches' = ApplyRuleOrdering(rules, ruleordering,
                         ApplyEventOrdering(causal, eventordering, sh))
    /\ pc' = "process"
    /\ idx' = 1
    /\ UNCHANGED <<spatial, causal, rules, initial, step, eventcnt, maxevents,
                   eventordering, ruleordering, timers, finished, runs, cancelled,
                   progresscalls, progresslast>>

\* The presence check left out: every hit of the list is applied.
StillPresentUnchecked(graph, rs, match) == TRUE

\* if ( spatial.count( hit ) ): the hit is still present in the live graph.
StillPresent(graph, rs, match) ==
    count(graph, mapper(graph, rs[match.r + 1].lhs, match.m)) > 0

\* The limit compared with > instead of >=.
LimitExceeded(cnt, limit) == cnt > limit

\* if ( ++this.eventcnt >= this.maxevents ) / if ( this.eventcnt >= this.maxevents )
LimitReached(cnt, limit) == cnt >= limit

\* The applied hit recorded with the vertices of the deleted edges instead
\* of those of the added edges.
ApplyHitMarksDeleted ==
    /\ pc = "process"
    /\ StillPresent(spatial, rules, matches[idx])
    /\ LET match == matches[idx]
           nol == rulesNol(rules[match.r + 1])
           del == mapper(spatial, nol.lhs, match.m)
           add == mapper(spatial, nol.rhs, match.m)
           modified == SortDefault(Range(flat(del)))
       IN /\ spatial' = rewriteSpatial(spatial, del, add)
          /\ causal' = rewriteCausal(causal, match.m, modified, [step |-> step])
    /\ eventcnt' = eventcnt + 1
    /\ IF LimitReached(eventcnt', maxevents) \/ idx = Len(matches)
       THEN pc' = "check" /\ idx' = 0
       ELSE pc' = "process" /\ idx' = idx + 1
    /\ UNCHANGED <<rules, initial, step, maxevents, matches, eventordering,
                   ruleordering, timers, finished, runs, cancelled,
                   progresscalls, progresslast>>

\* One iteration of the loop of processMatches that applies the hit.
ApplyHit ==
    /\ pc = "process"
    /\ StillPresent(spatial, rules, matches[idx])
    /\ LET match == matches[idx]
           nol == rulesNol(rules[match.r + 1])
           del == mapper(spatial, nol.lhs, match.m)
           add == mapper(spatial, nol.rhs, match.m)
           modified == SortDefault(Range(flat(add)))
       IN /\ spatial' = rewriteSpatial(spatial, del, add)
          /\ causal' = rewriteCausal(causal, match.m, modified, [step |-> step])
    /\ eventcnt' = eventcnt + 1
    /\ IF LimitReached(eventcnt', maxevents) \/ idx = Len(matches)
       THEN pc' = "check" /\ idx' = 0
       ELSE pc' = "process" /\ idx' = idx + 1
    /\ UNCHANGED <<rules, initial, step, maxevents, matches, eventordering,
                   ruleordering, timers, finished, runs, cancelled,
                   progresscalls, progresslast>>

\* The loop of processMatches left at the first hit that is not present.
SkipHitBreaks ==
    /\ pc = "process"
    /\ ~StillPresent(spatial, rules, matches[idx])
    /\ pc' = "check"
    /\ idx' = 0
    /\ UNCHANGED <<spatial, causal, rules, initial, step, eventcnt, maxevents,
                   matches, eventordering, ruleordering, timers, finished, runs,
                   cancelled, progresscalls, progresslast>>

\* One iteration of the loop of processMatches that skips the hit.
SkipHit ==
    /\ pc = "process"
    /\ ~StillPresent(spatial, rules, matches[idx])
    /\ IF idx = Len(matches)
       THEN pc' = "check" /\ idx' = 0
       ELSE pc' = "process" /\ idx' = idx + 1
    /\ UNCHANGED <<spatial, causal, rules, initial, step, eventcnt, maxevents,
                   matches, eventordering, ruleordering, timers, finished, runs,
                   cancelled,
                   progresscalls, progresslast>>

\* if ( this.eventcnt >= this.maxevents ) break;
BudgetBreak ==
    /\ pc = "check"
    /\ LimitReached(eventcnt, maxevents)
    /\ pc' = "progress"
    /\ UNCHANGED <<spatial, causal, rules, initial, step, eventcnt, maxevents,
                   matches, eventordering, ruleordering, idx, timers, finished,
                   runs, cancelled,
                   progresscalls, progresslast>>

\* while( (performance.now() - start) < 500 ) with time left: another round.
NextRound ==
    /\ pc = "check"
    /\ ~LimitReached(eventcnt, maxevents)
    /\ pc' = "step"
    /\ UNCHANGED <<spatial, causal, rules, initial, step, eventcnt, maxevents,
                   matches, eventordering, ruleordering, idx, timers, finished,
                   runs, cancelled,
                   progresscalls, progresslast>>

\* while( (performance.now() - start) < 500 ) with the 500 msec used up.
TimeUp ==
    /\ pc = "check"
    /\ ~LimitReached(eventcnt, maxevents)
    /\ pc' = "progress"
    /\ UNCHANGED <<spatial, causal, rules, initial, step, eventcnt, maxevents,
                   matches, eventordering, ruleordering, idx, timers, finished,
                   runs, cancelled,
                   progresscalls, progresslast>>

\* The slice goes on to its termination check without calling progressfn.
ProgressSkipped ==
    /\ pc = "progress"
    /\ pc' = "terminate"
    /\ UNCHANGED <<spatial, causal, rules, initial, step, eventcnt, maxevents,
                   matches, eventordering, ruleordering, idx, timers, finished,
                   runs, cancelled, progresscalls, progresslast>>

\* this.duration += end - start; this.progressfn( this.eventcnt )
Progress ==
    /\ pc = "progress"
    /\ progresscalls' = progresscalls + 1
    /\ progresslast' = eventcnt
    /\ pc' = "terminate"
    /\ UNCHANGED <<spatial, causal, rules, initial, step, eventcnt, maxevents,
                   matches, eventordering, ruleordering, idx, timers, finished,
                   runs, cancelled>>

\* The termination condition without the test for an empty hit list.
IsOverByLimitOnly(hits, cnt, limit) == LimitReached(cnt, limit)

\* if ( this.matches.length === 0 || this.eventcnt >= this.maxevents )
IsOver(hits, cnt, limit) == Len(hits) = 0 \/ LimitReached(cnt, limit)

\* The slice calls finishedfn and schedules another slice all the same.
FinishSchedulesSlice ==
    /\ pc = "terminate"
    /\ IsOver(matches, eventcnt, maxevents)
    /\ matches' = <<>>
    /\ finished' = finished + 1
    /\ timers' = timers + 1
    /\ progresscalls' = 0
    /\ pc' = "idle"
    /\ UNCHANGED <<spatial, causal, rules, initial, step, eventcnt, maxevents,
                   eventordering, ruleordering, idx, runs, cancelled,
                   progresslast>>

\* The slice ends the run: the hits are dropped and finishedfn is called.
Finish ==
    /\ pc = "terminate"
    /\ IsOver(matches, eventcnt, maxevents)
    /\ matches' = <<>>
    /\ finished' = finished + 1
    /\ progresscalls' = 0
    /\ pc' = "idle"
    /\ UNCHANGED <<spatial, causal, rules, initial, step, eventcnt, maxevents,
                   eventordering, ruleordering, idx, timers, runs, cancelled,
                   progresslast>>

\* The slice yields without scheduling the next slice.
YieldForgetsTimer ==
    /\ pc = "terminate"
    /\ ~IsOver(matches, eventcnt, maxevents)
    /\ matches' = <<>>
    /\ progresscalls' = 0
    /\ pc' = "idle"
    /\ UNCHANGED <<spatial, causal, rules, initial, step, eventcnt, maxevents,
                   eventordering, ruleordering, idx, timers, finished, runs,
                   cancelled, progresslast>>

\* The slice yields: the hits are dropped and the next slice is scheduled.
Yield ==
    /\ pc = "terminate"
    /\ ~IsOver(matches, eventcnt, maxevents)
    /\ matches' = <<>>
    /\ timers' = timers + 1
    /\ progresscalls' = 0
    /\ pc' = "idle"
    /\ UNCHANGED <<spatial, causal, rules, initial, step, eventcnt, maxevents,
                   eventordering, ruleordering, idx, finished, runs, cancelled,
                   progresslast>>

RunSome ==
    \E in \in RunInputs, n \in 0..MaxEvents :
        Run(in.rules, in.initial, in.ruleOrdering, in.eventOrdering, n)

Next ==
    \/ RunSome
    \/ Cancel
    \/ SliceStart
    \/ NewStep
    \/ FindRound
    \/ OrderRound
    \/ ApplyHit
    \/ SkipHit
    \/ BudgetBreak
    \/ NextRound
    \/ TimeUp
    \/ Progress
    \/ Finish
    \/ Yield

Spec == Init /\ [][Next]_vars

\* The steps the JavaScript runtime takes on its own: a pending timer fires
\* and a slice that has started runs to its end.
Slice ==
    \/ SliceStart
    \/ NewStep
    \/ FindRound
    \/ OrderRound
    \/ ApplyHit
    \/ SkipHit
    \/ BudgetBreak
    \/ NextRound
    \/ TimeUp
    \/ Progress
    \/ Finish
    \/ Yield

\* A step of Slice seen from the position of the slice.  Every action of
\* Slice changes pc or idx and neither run() nor cancel() does, so the steps
\* of Slice are the steps of Next that change <<pc, idx>>; one is possible
\* exactly when a slice is executing or a timer is pending.
SliceStep ==
    /\ pc # "idle" \/ timers > 0
    /\ pc' \in {"idle", "step", "find", "order", "process", "check", "progress",
               "terminate"}
    /\ idx' \in 0..Len(matches)

\* The system with a runtime that fires every pending timer and never
\* stops inside a slice; run() and cancel() are called or not.
FairSpec == Spec /\ WF_<<pc, idx>>(SliceStep)

\* ------------------------------------------------------------------ claims

\* The fully substituted left-hand side of the hit processMatches is at.
HitEdges == mapper(spatial, rules[matches[idx].r + 1].lhs, matches[idx].m)

\* The edges the hit at idx deletes and adds.
HitDel == mapper(spatial, rulesNol(rules[matches[idx].r + 1]).lhs, matches[idx].m)

HitAdd == mapper(spatial, rulesNol(rules[matches[idx].r + 1]).rhs, matches[idx].m)

\* Every edge of the substituted left-hand side is live, as often as needed.
HitLive == \A e \in Range(HitEdges) : Occurrences(spatial.E, e) >= Occurrences(HitEdges, e)

\* C1: in a round of processMatches a hit is applied only if every edge of
\* its fully substituted left-hand side is live at that moment; then each
\* deleted edge is removed exactly once (the edge counts change by exactly
\* the delta), and a hit whose edges were consumed earlier is skipped: the
\* event counter, the hypergraph and the causal graph stay as they are.
C1_AppliedOnlyIfPresent ==
    [][pc = "process" =>
          /\ eventcnt' # eventcnt =>
                /\ HitLive
                /\ eventcnt' = eventcnt + 1
                /\ \A e \in Range(spatial.E) \cup Range(spatial'.E) :
                      Occurrences(spatial'.E, e) =
                          Occurrences(spatial.E, e) - Occurrences(HitDel, e)
                              + Occurrences(HitAdd, e)
          /\ ~HitLive =>
                /\ eventcnt' = eventcnt
                /\ spatial' = spatial
                /\ causal' = causal]_vars

\* C1 witness: a hit whose left-hand side was consumed by a hit applied
\* earlier in the same round is about to be processed.
C1_Witness ==
    /\ pc = "process"
    /\ idx > 1
    /\ ~HitLive
    /\ causal[Len(causal)].step = step
    /\ count(spatial, HitEdges) = 0

\* C2: for a run started once with maxEvents = N and never cancelled, the
\* event counter when onFinished is invoked is min(N, number of events that
\* can be applied before no match remains): it never exceeds N, and it stays
\* below N only when no match remains.
C2_BudgetTermination ==
    (runs = 1 /\ ~cancelled /\ finished >= 1) =>
        /\ eventcnt <= maxevents
        /\ eventcnt < maxevents => findMatches(spatial, rules) = <<>>

\* C3: after findMatches, every (rule, assignment) pair of the hit list
\* occurs in it exactly as many times as its substituted left-hand side
\* exists in the graph.
C3_MultiplicityCorrect ==
    pc = "order" =>
        \A k \in DOMAIN matches :
            Occurrences(matches, matches[k]) =
                count(spatial, mapper(spatial, rules[matches[k].r + 1].lhs,
                                      matches[k].m))

\* C4: the finished callback given to a run() call is invoked at most once,
\* whatever the interleaving of run(), cancel() and timer firings.
C4_FinishedAtMostOnce == finished <= 1

\* C5: once cancel() has been called between slices, no later slice applies
\* a match: the hypergraph, the causal graph and the event counter keep the
\* values they had when cancel() was called.
C5_CancelFreezes ==
    [][(cancelled /\ cancelled') =>
          (spatial' = spatial /\ causal' = causal /\ eventcnt' = eventcnt)]_vars

\* C6: when cancel() was called during a run, the next slice that executes
\* invokes onFinished and schedules no further slice, whether or not matches
\* still exist.  (cancelled is reset by run(), and a slice runs from
\* SliceStart to its termination check without interruption.)
C6_CancelStopsNextSlice ==
    [][(cancelled /\ pc = "terminate") =>
          (finished' = finished + 1 /\ timers' = timers /\ pc' = "idle")]_vars

\* C6 witness: a slice of a cancelled, unfinished run that found matches is
\* at its termination check.
C6_Witness ==
    /\ runs = 1
    /\ cancelled
    /\ pc = "terminate"
    /\ finished = 0
    /\ Len(matches) > 0

\* The run of the README example: its rule, its initial state, one event.
ReadmeRun ==
    /\ rules = <<RuleReadme>>
    /\ initial = InitReadme
    /\ maxevents = 1
    /\ runs = 1
    /\ ~cancelled

\* The two overlapping matches {x=1,y=2,z=2,u=3} and {x=2,y=3,z=3,u=4}.
ReadmeMatches == {[r |-> 0, m |-> <<1, 2, 2, 3>>], [r |-> 0, m |-> <<2, 3, 3, 4>>]}

\* C7: for the rule and the initial state of the README with maxEvents = 1,
\* the Match Finder reports exactly the two overlapping matches, exactly one
\* of them is applied, and the run finishes with event counter 1 and four
\* edges in the hypergraph.
C7_ReadmeExample ==
    ReadmeRun =>
        /\ (pc = "order" /\ step = 1) =>
              /\ Len(matches) = 2
              /\ {[r |-> matches[k].r, m |-> matches[k].m] : k \in DOMAIN matches}
                    = ReadmeMatches
        /\ finished >= 1 =>
              /\ finished = 1
              /\ eventcnt = 1
              /\ Len(spatial.E) = 4
              /\ Len(causal) = 2
              /\ [r |-> 0, m |-> causal[2].consumed] \in ReadmeMatches

\* C7 witness: the README run has finished.
C7_Witness == ReadmeRun /\ finished = 1 /\ pc = "idle" /\ eventcnt = 1

\* The variables of a rule that occur on its right-hand side only.
RhsOnlyVars(rule) == Range(flat(rule.rhs)) \ Range(flat(rule.lhs))

\* The vertex mapper substitutes for the variable v under the hit at idx.
Substituted(v) == mapper(spatial, << <<v>> >>, matches[idx].m)[1][1]

\* C8: for every hit about to be applied, the vertex substituted for a
\* variable that occurs only on the right-hand side is strictly greater than
\* maxv, and two such variables never receive the same vertex.
C8_VertexFreshness ==
    (pc = "process" /\ StillPresent(spatial, rules, matches[idx])) =>
        LET fresh == RhsOnlyVars(rules[matches[idx].r + 1])
        IN /\ \A v \in fresh : Substituted(v) > spatial.maxv
           /\ \A v, w \in fresh : v # w => Substituted(v) # Substituted(w)

\* C9: when the Match Finder returns no hits, the round mutates nothing, the
\* slice goes on to its progress notification and termination check with
\* the hit list still empty, invokes onFinished there and schedules no
\* slice; with an empty rule set there is never a hit and the event count
\* is 0.
C9_NoHitsFinishes ==
    [][/\ (pc = "find" /\ Len(rules) = 0) => Len(matches') = 0
       /\ (pc = "find" /\ Len(matches') = 0) =>
             /\ pc' = "progress"
             /\ spatial' = spatial /\ causal' = causal /\ eventcnt' = eventcnt
       /\ (pc = "progress" /\ Len(matches) = 0) =>
             /\ pc' = "terminate"
             /\ matches' = matches /\ spatial' = spatial /\ timers' = timers
       /\ (pc = "terminate" /\ Len(matches) = 0) =>
             /\ pc' = "idle"
             /\ finished' = finished + 1
             /\ timers' = timers
             /\ spatial' = spatial
             /\ Len(rules) = 0 => eventcnt' = 0]_vars

\* C9 witness: the first round of a run with an empty rule set found no hit
\* and the run has finished with event count 0.
C9_Witness ==
    /\ Len(rules) = 0
    /\ runs >= 1
    /\ pc = "idle"
    /\ step = 1
    /\ finished = 1
    /\ eventcnt = 0
    /\ timers = 0
    /\ spatial.E = initial

\* C10: right after run() returns, whatever earlier runs left behind, the
\* step and event counters are 0, the hit list is empty, the hypergraph
\* holds exactly the edges of initial with their multiplicities, and the
\* causal graph holds exactly one event, consuming nothing, producing the
\* deduplicated vertex set of initial, stamped with step 0.
C10_RunResets ==
    [][runs' # runs =>
          /\ step' = 0
          /\ eventcnt' = 0
          /\ matches' = <<>>
          /\ Len(spatial'.E) = Len(initial')
          /\ \A e \in Range(initial') \cup Range(spatial'.E) :
                Occurrences(spatial'.E, e) = Occurrences(initial', e)
          /\ Len(causal') = 1
          /\ causal'[1].consumed = <<>>
          /\ Range(causal'[1].produced) = Range(flat(initial'))
          /\ Len(causal'[1].produced) = Cardinality(Range(flat(initial')))
          /\ causal'[1].step = 0]_vars

\* C10 witness: run() has just returned for the second time, after the
\* first run executed a slice.
C10_Witness ==
    /\ runs = 2
    /\ pc = "idle"
    /\ step = 0
    /\ eventcnt = 0
    /\ finished = 0
    /\ timers = 1
    /\ Len(causal) = 1
    /\ spatial.E = initial

\* C11: for a rule whose two sides are structurally equal the factored delta
\* is (empty, empty): applying a hit of that rule leaves every edge count of
\* the hypergraph (and maxv) as it was and records one causal event whose
\* produced list is empty.
C11_EqualSidesNoDelta ==
    [][(pc = "process" /\ eventcnt' # eventcnt
            /\ rules[matches[idx].r + 1].lhs = rules[matches[idx].r + 1].rhs) =>
          /\ rulesNol(rules[matches[idx].r + 1]) = [lhs |-> <<>>, rhs |-> <<>>]
          /\ \A e \in Range(spatial.E) \cup Range(spatial'.E) :
                Occurrences(spatial'.E, e) = Occurrences(spatial.E, e)
          /\ spatial'.maxv = spatial.maxv
          /\ Len(causal') = Len(causal) + 1
          /\ causal'[Len(causal')].consumed = matches[idx].m
          /\ causal'[Len(causal')].produced = <<>>]_vars

\* C11 witness: a hit of the rule (x,y) -> (x,y) has been applied.
C11_Witness ==
    /\ rules = <<RuleSame>>
    /\ eventcnt >= 1
    /\ Len(causal) = eventcnt + 1
    /\ causal[Len(causal)].produced = <<>>
    /\ spatial.E = initial

\* C12: the progress callback is invoked exactly once per executed slice,
\* after the slice's rounds (no call while the slice finds, orders and
\* processes hits) and before its termination check (one call made when the
\* check is reached, and the slice ends only through that check), and the
\* count of each call is not below the count of the previous call of the
\* same run.
C12_ProgressOncePerSlice ==
    [][/\ pc \in {"step", "find", "order", "process", "check", "progress"} =>
             progresscalls = 0
       /\ pc = "progress" =>
             /\ pc' = "terminate"
             /\ progresscalls' = 1
             /\ progresslast' = eventcnt
             /\ progresslast' >= progresslast
       /\ pc = "terminate" =>
             /\ progresscalls = 1
             /\ pc' = "idle"
             /\ progresslast' = progresslast
       /\ (pc # "idle" /\ pc' = "idle") => pc = "terminate"]_vars

\* C12 witness: a later slice of a run is about to report a count larger
\* than the one an earlier slice of the same run reported.
C12_Witness ==
    /\ pc = "progress"
    /\ runs = 1
    /\ progresscalls = 0
    /\ progresslast >= 0
    /\ eventcnt > progresslast

\* C13: in the hit list findMatches has just built, a live edge whose length
\* differs from the length of the first left-hand-side pattern of a rule
\* seeds no hit of that rule, and every hit of the list is seeded by a live
\* edge of exactly that length.
C13_SeedArity ==
    pc = "order" =>
        /\ \A e \in DOMAIN spatial.E, i \in 0..(Len(rules) - 1) :
              Len(spatial.E[e]) # Len(rules[i + 1].lhs[1]) =>
                  SeedHits(spatial, rules, spatial.E[e], i) = <<>>
        /\ \A k \in DOMAIN matches :
              \E e \in DOMAIN spatial.E :
                  /\ Len(spatial.E[e]) = Len(rules[matches[k].r + 1].lhs[1])
                  /\ matches[k] \in Range(SeedHits(spatial, rules, spatial.E[e],
                                                   matches[k].r))

\* C13 witness: findMatches returned a hit on a graph that also holds a live
\* edge of another length over the vertices of the hit.
C13_Witness ==
    /\ pc = "order"
    /\ Len(matches) > 0
    /\ \E e \in DOMAIN spatial.E :
          /\ Len(spatial.E[e]) # Len(rules[matches[1].r + 1].lhs[1])
          /\ Range(matches[1].m) \subseteq Range(spatial.E[e])

\* A round orders its hits by both keys: more than one rule, ruleOrdering
\* "index" or "indexrev", eventOrdering "ascending" or "descending".
BothOrderings ==
    /\ pc = "process"
    /\ Len(rules) > 1
    /\ ruleordering \in {"index", "indexrev"}
    /\ eventordering \in {"ascending", "descending"}

\* C14: when more than one rule is defined, ruleOrdering is "index" or
\* "indexrev" and eventOrdering is "ascending" or "descending", the hits of a
\* round are processed in the order of the event-ordering comparator, and
\* the rule index decides only between hits the event-ordering comparator
\* ranks equal.
C14_EventKeyPrimary ==
    BothOrderings =>
        \A j, k \in DOMAIN matches :
            j < k =>
                /\ Compare(eventordering, matches[j], matches[k]) <= 0
                /\ Compare(eventordering, matches[j], matches[k]) = 0 =>
                       Compare(ruleordering, matches[j], matches[k]) <= 0

\* C14 amended: under the same settings the hits of a round are processed in
\* the order of the rule index (ascending for "index", descending for
\* "indexrev"), and the event-ordering comparator decides only between hits
\* of the same rule.
C14_RuleIndexPrimary ==
    BothOrderings =>
        \A j, k \in DOMAIN matches :
            j < k =>
                /\ Compare(ruleordering, matches[j], matches[k]) <= 0
                /\ matches[j].r = matches[k].r =>
                       Compare(eventordering, matches[j], matches[k]) <= 0

\* C14 witness: a round processes hits of two rules whose event-ordering
\* keys differ, and the two keys disagree about which hit comes first.
C14_Witness ==
    /\ BothOrderings
    /\ \E j, k \in DOMAIN matches :
          /\ matches[j].r # matches[k].r
          /\ matches[j].order # matches[k].order
          /\ Compare(ruleordering, matches[j], matches[k]) < 0
          /\ Compare(eventordering, matches[j], matches[k]) > 0

\* a is lexicographically smaller than b: smaller at the first position at
\* which they differ, or a proper prefix of b.
LexLess(a, b) ==
    LET d == FirstDiff(a, b, 1)
    IN IF d # 0 THEN a[d] < b[d] ELSE Len(a) < Len(b)

\* A round orders its hits by the "ascending" event ordering alone: no rule
\* ordering is applied after it.
AscendingOnly ==
    /\ pc = "process"
    /\ eventordering = "ascending"
    /\ ~(Len(rules) > 1 /\ ruleordering \in {"index", "indexrev"})

\* C15: with eventOrdering "ascending" (and no rule ordering applied on top),
\* of two hits of a round whose rank keys (the causal ranks of the bound
\* vertices, sorted descending) differ, the one with the lexicographically
\* smaller rank key is processed before the other.
C15_AscendingSmallestFirst ==
    AscendingOnly =>
        \A j, k \in DOMAIN matches :
            (j < k /\ matches[j].order # matches[k].order) =>
                LexLess(matches[j].order, matches[k].order)

\* The map of findMatches for an assignment f of the left-hand-side
\* variables of a rule: a slot no left-hand-side variable owns holds -1.
AsMap(rule, f) ==
    [v \in 1..(Max(Range(flat(rule.lhs))) + 1) |->
        IF v - 1 \in DOMAIN f THEN f[v - 1] ELSE -1]

\* Every edge of the list is live, as often as the list holds it.
AllLive(graph, edges) ==
    \A e \in Range(edges) : Occurrences(graph.E, e) >= Occurrences(edges, e)

\* The (rule, assignment) pairs that bind every left-hand-side variable of
\* the rule to a vertex of the graph such that every substituted
\* left-hand-side pattern is a live edge (two patterns substituted to the
\* same edge need two live instances of it).
ValidPairs(graph, rs) ==
    UNION {{[r |-> i - 1, m |-> AsMap(rs[i], f)] :
               f \in {g \in [Range(flat(rs[i].lhs)) -> Range(flat(graph.E))] :
                         AllLive(graph, mapper(graph, rs[i].lhs, AsMap(rs[i], g)))}} :
           i \in DOMAIN rs}

\* C16: the distinct (rule, assignment) pairs of the hit list findMatches
\* builds are exactly the pairs that bind every left-hand-side variable and
\* whose substituted left-hand-side patterns are all live edges of the
\* graph: no such pair is missing and no other pair is reported.
C16_FinderSoundComplete ==
    [][pc = "find" =>
          {[r |-> matches'[k].r, m |-> matches'[k].m] : k \in DOMAIN matches'}
              = ValidPairs(spatial, rules)]_vars

\* C16 witness: findMatches has just run on a graph holding an edge that
\* fits the first pattern (x,x,y) only by length, the substituted left-hand
\* side being absent, and reported nothing.
C16_Witness ==
    /\ pc = "progress"
    /\ rules = <<RuleLoop>>
    /\ matches = <<>>
    /\ eventcnt >= 1
    /\ \E e \in Range(spatial.E) : Len(e) = 3 /\ e[1] # e[2]

\* C17: processing a hit whose fully substituted left-hand side is no longer
\* present in the hypergraph changes neither the edges nor maxv nor the
\* causal graph nor the event counter, and the loop goes on with the next
\* hit of the unchanged list (the round ends only when the hit was the last).
C17_AbsentHitSkipped ==
    [][(pc = "process" /\ count(spatial, HitEdges) = 0) =>
          /\ spatial'.E = spatial.E
          /\ spatial'.maxv = spatial.maxv
          /\ causal' = causal
          /\ eventcnt' = eventcnt
          /\ matches' = matches
          /\ IF idx < Len(matches)
             THEN pc' = "process" /\ idx' = idx + 1
             ELSE pc' = "check"]_vars

\* C17 witness: in the first round a hit was skipped and the loop is at a
\* later hit of the list.
C17_Witness ==
    /\ pc = "process"
    /\ step = 1
    /\ idx >= 3
    /\ eventcnt < idx - 1
    /\ eventcnt < maxevents

\* C18: for every applied hit the produced list handed to the causal graph
\* holds each vertex of the added edges exactly once and is sorted in
\* ascending order of the vertex ids, whatever their numbers of digits.
C18_ProducedSortedAscending ==
    [][(pc = "process" /\ eventcnt' # eventcnt) =>
          LET produced == causal'[Len(causal')].produced
          IN /\ Range(produced) = Range(flat(HitAdd))
             /\ Len(produced) = Cardinality(Range(produced))
             /\ \A a, b \in DOMAIN produced :
                   a < b => produced[a] < produced[b]]_vars

\* The recorded events that are the first to produce the vertex v.
FirstProducers(v) ==
    {i \in DOMAIN causal :
        /\ v \in Range(causal[i].produced)
        /\ \A j \in 1..(i - 1) : v \notin Range(causal[j].produced)}

\* C19: in every state of a run every vertex of a live edge lies in the
\* produced list of a recorded event (the initial event or a rewrite
\* event), and exactly one recorded event is the first to produce it.
C19_LiveVerticesIntroduced ==
    runs >= 1 =>
        \A v \in Range(flat(spatial.E)) :
            /\ \E i \in DOMAIN causal : v \in Range(causal[i].produced)
            /\ Cardinality(FirstProducers(v)) = 1

\* C19 witness: the live graph holds a vertex first produced by a rewrite
\* event and a vertex of the initial state that a rewrite event produced
\* again.
C19_Witness ==
    /\ Len(causal) >= 2
    /\ \E v \in Range(flat(spatial.E)) : FirstProducers(v) \cap (2..Len(causal)) # {}
    /\ \E w \in Range(flat(spatial.E)) :
          /\ FirstProducers(w) = {1}
          /\ \E i \in 2..Len(causal) : w \in Range(causal[i].produced)

\* C20: provided every pending timer eventually fires, every run eventually
\* invokes the finished callback (unless run() is called again first, which
\* replaces the callback): the first hit a round processes is always present
\* in the live graph, so a round that found hits applies at least one.
C20_RunFinishes ==
    /\ [][(pc = "process" /\ idx = 1) =>
             (StillPresent(spatial, rules, matches[1]) /\ eventcnt' = eventcnt + 1)]_vars
    /\ [][(<<pc, idx>>' # <<pc, idx>>) <=> Slice]_vars
    /\ \A k \in 1..MaxRuns :
          (runs = k /\ finished = 0) ~> (finished >= 1 \/ runs > k)

\* C20 witness: a run that yielded after a round with hits has invoked the
\* finished callback in a later slice.
C20_Witness ==
    /\ runs = 1
    /\ ~cancelled
    /\ finished = 1
    /\ pc = "idle"
    /\ step >= 2
    /\ progresslast = eventcnt
    /\ eventcnt >= 2
    /\ timers = 0

\* C21: findMatches discards the hits of the previous round (the new list
\* holds only hits found in the graph as it is: each is present in it and
\* none carries the order key of an earlier round) and mutates nothing else:
\* the edges and maxv of the hypergraph, the causal graph, the step counter
\* and the event counter are after the call what they were before it.
C21_FindMatchesFrame ==
    [][pc = "find" =>
          /\ spatial'.E = spatial.E
          /\ spatial'.maxv = spatial.maxv
          /\ causal' = causal
          /\ step' = step
          /\ eventcnt' = eventcnt
          /\ Len(matches') = Cardinality({k \in DOMAIN matches' :
                                 count(spatial, mapper(spatial,
                                     rules[matches'[k].r + 1].lhs, matches'[k].m)) > 0})
          /\ \A k \in DOMAIN matches' : DOMAIN matches'[k] = {"r", "m"}
          /\ \A k \in DOMAIN matches' :
                Occurrences(matches', matches'[k])
                    = Occurrences(findMatches(spatial, rules), matches'[k])]_vars

\* C21 witness: findMatches has just run for the second round of one slice,
\* called with the hits of the first round still in the list.
C21_Witness ==
    /\ pc = "order"
    /\ runs = 1
    /\ step = 2
    /\ eventcnt >= 1
    /\ progresslast = -1
    /\ Len(matches) > 0

\* C22: in every state of a run the causal graph holds the event counter
\* plus one events, the initial event stamped with step 0 followed by the
\* rewrite events in non-decreasing step order, each with step >= 1; and a
\* step that applies a hit rewrites the hypergraph, records exactly one
\* event stamped with the current step and increments the counter by one,
\* all at once.
C22_EventsMatchCounter ==
    /\ [](runs >= 1 =>
             /\ Len(causal) = eventcnt + 1
             /\ causal[1].step = 0
             /\ \A i \in 2..Len(causal) : causal[i].step >= 1
             /\ \A i, j \in 2..Len(causal) :
                   i < j => causal[i].step <= causal[j].step)
    /\ [][(runs' = runs /\ (eventcnt' # eventcnt \/ causal' # causal
                               \/ spatial' # spatial)) =>
             /\ pc = "process"
             /\ eventcnt' = eventcnt + 1
             /\ causal' = Append(causal, causal'[Len(causal')])
             /\ causal'[Len(causal')].step = step
             /\ causal'[Len(causal')].consumed = matches[idx].m
             /\ spatial' = rewriteSpatial(spatial, HitDel, HitAdd)]_vars

\* C22 witness: a run has recorded rewrite events of two different steps.
C22_Witness ==
    /\ runs >= 1
    /\ Len(causal) >= 3
    /\ eventcnt = Len(causal) - 1
    /\ causal[2].step = 1
    /\ causal[Len(causal)].step >= 2

\* The finished callback of the only run() call so far has been invoked.
FinishedOnce == runs = 1 /\ finished >= 1

\* C23: once the finished callback of a run that was started once has been
\* invoked, no slice executes or is scheduled and the hit list is empty;
\* until run() is called again the hypergraph, the causal graph, the step
\* counter and the event counter (and the rules, the orderings, the hit
\* list, the timers and the number of finished calls) keep their values,
\* and the only step left besides run(), cancel(), changes maxevents alone.
C23_FinishedAbsorbing ==
    /\ [](FinishedOnce =>
             (pc = "idle" /\ timers = 0 /\ matches = <<>> /\ finished = 1))
    /\ [][(FinishedOnce /\ runs' = runs) =>
             /\ spatial' = spatial
             /\ causal' = causal
             /\ step' = step
             /\ eventcnt' = eventcnt
             /\ maxevents' = 0
             /\ UNCHANGED <<rules, initial, matches, eventordering, ruleordering,
                            pc, idx, timers, finished, progresscalls,
                            progresslast>>]_vars

\* C23 witness: the finished callback of the only run, which applied events,
\* has been invoked and cancel() has been called; no slice is left.
C23_Witness ==
    /\ FinishedOnce
    /\ cancelled
    /\ maxevents = 0
    /\ pc = "idle"
    /\ eventcnt >= 1
    /\ Len(causal) = eventcnt + 1
    /\ progresslast = eventcnt

====
